---- MODULE Spec2Model ----
\* Sleep Health Insight backend (backend/app.py): the in-memory ingest of an
\* Apple Health export into the global `nights` list and `summary_cache`, and the
\* three read endpoints /summary, /nights and /sleep-score; and the batch
\* persister (backend/importer.py) that writes the heart-rate and sleep records
\* of an export into the two tables of backend/db.py.
\*
\* Units and representations
\*   text        a Python str is a sequence of one-character strings; an absent
\*               attribute (None) and the empty string are both <<>>, which is all
\*               the code distinguishes (it only tests truthiness)
\*   timestamp   [st, loc, off]: st = "ok" for a startDate/endDate that strptime
\*               parses, "bad" for one it rejects, "absent" for a missing one;
\*               loc = local wall-clock hours since 2024-01-01 00:00, off = the UTC
\*               offset in hours.  Inputs are whole hours, so durations are whole.
\*   date        <<year, month, day>>, compared field by field, which is how the
\*               zero-padded ISO string "YYYY-MM-DD" compares
\*   float       an exact rational <<num, den>> in lowest terms, den > 0
\*   None        <<>> where a float is optional
EXTENDS Integers, Sequences, FiniteSets, TLC

VARIABLES
    nights,         \* the global list `nights`
    summary_cache,  \* the global `summary_cache`
    up,             \* per client, its upload() call: position and locals
    loop,           \* the client whose upload() the event loop is running
    resp,           \* the response in flight to a client
    latest,         \* history: the document of the most recent completed parse
                    \* and the nights it built
    pre,            \* history: `nights` and `summary_cache` when the upload began
                    \* that is running or whose response is in flight
    failures,       \* history: how the failed uploads left what the reads show
    imp,            \* the import_health_xml() call: position, locals, outcome
    db              \* the rows of the tables heart_rate and sleep_epoch, by id

vars == <<nights, summary_cache, up, loop, resp, latest, pre, failures, imp, db>>

\* ---------------------------------------------------------------------------
\* Text
\* ---------------------------------------------------------------------------

\* a str of lower-case letters, digits and punctuation, character by character
LowerCase == <<"a","b","c","d","e","f","g","h","i","j","k","l","m",
               "n","o","p","q","r","s","t","u","v","w","x","y","z">>

UpperCase == <<"A","B","C","D","E","F","G","H","I","J","K","L","M",
               "N","O","P","Q","R","S","T","U","V","W","X","Y","Z">>

\* str.upper() on one character
UpperChar(c) ==
    IF \E i \in 1..26 : LowerCase[i] = c
    THEN UpperCase[CHOOSE i \in 1..26 : LowerCase[i] = c]
    ELSE c

\* str.upper()
Upper(s) == [i \in 1..Len(s) |-> UpperChar(s[i])]

\* needle in hay
Contains(hay, needle) ==
    \E i \in 1..(Len(hay) - Len(needle) + 1) :
        SubSeq(hay, i, i + Len(needle) - 1) = needle

\* str.lower() on one character
LowerChar(c) ==
    IF \E i \in 1..26 : UpperCase[i] = c
    THEN LowerCase[CHOOSE i \in 1..26 : UpperCase[i] = c]
    ELSE c

\* str.lower()
Lower(s) == [i \in 1..Len(s) |-> LowerChar(s[i])]

\* s.endswith(suffix)
EndsWith(s, suffix) ==
    Len(s) >= Len(suffix) /\ SubSeq(s, Len(s) - Len(suffix) + 1, Len(s)) = suffix

Digits == <<"0","1","2","3","4","5","6","7","8","9">>

IsDigit(c) == \E i \in 1..10 : Digits[i] = c

DigitVal(c) == (CHOOSE i \in 1..10 : Digits[i] = c) - 1

RECURSIVE DigitsVal(_)
DigitsVal(s) ==
    IF s = <<>> THEN 0
    ELSE 10 * DigitsVal(SubSeq(s, 1, Len(s) - 1)) + DigitVal(s[Len(s)])

\* float(value_str) returns a number.  The modelled value strings are runs of
\* decimal digits, which float() accepts, and strings with a letter and no digit
\* (a unit, a category label), which it rejects; "NaN", which only the documents
\* of the batch persister carry, is FloatNaN below.
FloatOk(s) == s # <<>> /\ \A i \in 1..Len(s) : IsDigit(s[i])

\* ---------------------------------------------------------------------------
\* Exact arithmetic for the code's floats
\* ---------------------------------------------------------------------------

\* F of the value of e, with e evaluated once before F is entered
Then(e, F(_)) == CHOOSE r \in {F(x) : x \in {e}} : TRUE

Abs(x) == IF x < 0 THEN -x ELSE x

Min2(a, b) == IF b < a THEN b ELSE a

Max2(a, b) == IF b > a THEN b ELSE a

RECURSIVE GCD(_, _)
GCD(a, b) == IF b = 0 THEN a ELSE GCD(b, a % b)

None == <<>>

\* n / d, d # 0
Rat(n, d) ==
    LET s == IF d < 0 THEN -1 ELSE 1
        g == GCD(Abs(n), Abs(d))
    IN  <<(s * n) \div g, (s * d) \div g>>

RInt(n) == <<n, 1>>

RAdd(a, b) == Rat(a[1] * b[2] + b[1] * a[2], a[2] * b[2])

RSub(a, b) == Rat(a[1] * b[2] - b[1] * a[2], a[2] * b[2])

RMul(a, b) == Rat(a[1] * b[1], a[2] * b[2])

RDiv(a, b) == Rat(a[1] * b[2], a[2] * b[1])

RAbs(a) == <<Abs(a[1]), a[2]>>

RLe(a, b) == a[1] * b[2] <= b[1] * a[2]

RLt(a, b) == a[1] * b[2] < b[1] * a[2]

RMin(a, b) == IF RLt(b, a) THEN b ELSE a

RMax(a, b) == IF RLt(a, b) THEN b ELSE a

\* sum() of the first k floats of s
RECURSIVE RSumUpTo(_, _)
RSumUpTo(s, k) ==
    IF k = 0 THEN RInt(0) ELSE Then(RSumUpTo(s, k - 1), LAMBDA t : RAdd(t, s[k]))

RSum(s) == RSumUpTo(s, Len(s))

RECURSIVE Pow10(_)
Pow10(k) == IF k = 0 THEN 1 ELSE 10 * Pow10(k - 1)

\* floor(n / d) for d > 0
FloorDiv(n, d) == IF n >= 0 THEN n \div d ELSE -((-n + d - 1) \div d)

\* round(x, digits): the possible results.  Python rounds the binary float to the
\* nearest decimal; a value that is not a decimal tie has one nearest neighbour.
\* At an exact decimal tie the result is decided by the float's representation
\* error, so both neighbours are possible outcomes.
Round(x, digits) ==
    LET p  == Pow10(digits)
        fl == FloorDiv(x[1] * p, x[2])
        rm == x[1] * p - fl * x[2]
    IN  IF rm = 0 THEN {Rat(fl, p)}
        ELSE IF 2 * rm = x[2] THEN {Rat(fl, p), Rat(fl + 1, p)}
        ELSE IF 2 * rm < x[2] THEN {Rat(fl, p)}
        ELSE {Rat(fl + 1, p)}

\* ---------------------------------------------------------------------------
\* Timestamps and dates
\* ---------------------------------------------------------------------------

MonthDays(y) ==
    <<31, IF y % 4 = 0 THEN 29 ELSE 28, 31, 30, 31, 30, 31, 31, 30, 31, 30, 31>>

YearDays(y) == IF y % 4 = 0 THEN 366 ELSE 365

RECURSIVE CivilFrom(_, _, _)
CivilFrom(y, m, d) ==
    IF d >= YearDays(y) /\ m = 1 THEN CivilFrom(y + 1, 1, d - YearDays(y))
    ELSE IF d >= MonthDays(y)[m] THEN CivilFrom(y, m + 1, d - MonthDays(y)[m])
    ELSE <<y, m, d + 1>>

\* datetime.date().isoformat(): the local calendar date of a parsed timestamp
DateOf(ts) == CivilFrom(2024, 1, ts.loc \div 24)

\* the instant an aware datetime denotes, in hours UTC
Instant(ts) == ts.loc - ts.off

\* "YYYY-MM-DD" < "YYYY-MM-DD" on strings
DateLt(a, b) ==
    \/ a[1] < b[1]
    \/ a[1] = b[1] /\ a[2] < b[2]
    \/ a[1] = b[1] /\ a[2] = b[2] /\ a[3] < b[3]

\* ---------------------------------------------------------------------------
\* Parsing one export document (parse_apple_health_sleep_xml_stream, the loop)
\* ---------------------------------------------------------------------------

T_SleepAnalysis == <<"S","l","e","e","p","A","n","a","l","y","s","i","s">>

T_HeartRate == <<"H","e","a","r","t","R","a","t","e">>

T_Variability == <<"V","a","r","i","a","b","i","l","i","t","y">>

T_HeartRateVariability == T_HeartRate \o T_Variability

T_RespiratoryRate == <<"R","e","s","p","i","r","a","t","o","r","y","R","a","t","e">>

K_REM == <<"R","E","M">>

K_DEEP == <<"D","E","E","P">>

K_CORE == <<"C","O","R","E">>

K_ASLEEP == <<"A","S","L","E","E","P">>

ASLEEP == K_ASLEEP

ASLEEP_REM == K_ASLEEP \o <<"_">> \o K_REM

ASLEEP_DEEP == K_ASLEEP \o <<"_">> \o K_DEEP

ASLEEP_CORE == K_ASLEEP \o <<"_">> \o K_CORE

\* map_stage(value_str)
map_stage(value_str) ==
    IF value_str = <<>> THEN ASLEEP
    ELSE LET v == Upper(value_str)
         IN  IF Contains(v, K_REM) THEN ASLEEP_REM
             ELSE IF Contains(v, K_DEEP) THEN ASLEEP_DEEP
             ELSE IF Contains(v, K_CORE) THEN ASLEEP_CORE
             ELSE IF Contains(v, K_ASLEEP) THEN ASLEEP
             ELSE ASLEEP

\* the raw collections before the first Record
NoRecords ==
    [sleep_segments |-> <<>>, hr_points |-> <<>>,
     hrv_points |-> <<>>, resp_points |-> <<>>]

\* one iteration of the loop over Record elements
ParseRecord(acc, r) ==
    IF r.startDate.st = "absent" THEN acc
    ELSE IF r.startDate.st = "bad" THEN acc
    ELSE IF Contains(r.type, T_SleepAnalysis) /\ r.endDate.st # "absent" THEN
        IF r.endDate.st = "bad" THEN acc
        ELSE [acc EXCEPT !.sleep_segments =
                 Append(@, <<r.startDate, r.endDate, map_stage(r.value)>>)]
    ELSE IF /\ Contains(r.type, T_HeartRate)
            /\ ~Contains(r.type, T_Variability)
            /\ r.value # <<>> THEN
        IF FloatOk(r.value)
        THEN [acc EXCEPT !.hr_points = Append(@, <<r.startDate, DigitsVal(r.value)>>)]
        ELSE acc
    ELSE IF Contains(r.type, T_HeartRateVariability) /\ r.value # <<>> THEN
        IF FloatOk(r.value)
        THEN [acc EXCEPT !.hrv_points = Append(@, <<r.startDate, DigitsVal(r.value)>>)]
        ELSE acc
    ELSE IF Contains(r.type, T_RespiratoryRate) /\ r.value # <<>> THEN
        IF FloatOk(r.value)
        THEN [acc EXCEPT !.resp_points = Append(@, <<r.startDate, DigitsVal(r.value)>>)]
        ELSE acc
    ELSE acc

\* the loop over the first k Record elements
RECURSIVE ParseUpTo(_, _)
ParseUpTo(recs, k) ==
    IF k = 0 THEN NoRecords
    ELSE Then(ParseUpTo(recs, k - 1), LAMBDA acc : ParseRecord(acc, recs[k]))

\* the whole loop over a well-formed document
ParseRecords(recs) == ParseUpTo(recs, Len(recs))

\* "Keep only true asleep segments": s[2] and "ASLEEP" in s[2]
AsleepSegments(sleep_segments) ==
    SelectSeq(sleep_segments, LAMBDA s : s[3] # <<>> /\ Contains(s[3], K_ASLEEP))

\* ---------------------------------------------------------------------------
\* Grouping by night.  nights_map is a dict in insertion order: a sequence of
\* entries [date, segments, hr, hrv, resp].
\* ---------------------------------------------------------------------------

HasDate(nights_map, d) == \E i \in 1..Len(nights_map) : nights_map[i].date = d

\* nb(date_str): the entry is created when missing
nb(nights_map, d) ==
    IF HasDate(nights_map, d) THEN nights_map
    ELSE Append(nights_map,
                [date |-> d, segments |-> <<>>, hr |-> <<>>, hrv |-> <<>>, resp |-> <<>>])

IndexOfDate(nights_map, d) == CHOOSE i \in 1..Len(nights_map) : nights_map[i].date = d

\* nb(night_date)["segments"].append(seg)
AddSegment(nights_map, seg) ==
    LET d == DateOf(seg[1])
        m == nb(nights_map, d)
        i == IndexOfDate(m, d)
    IN  [m EXCEPT ![i].segments = Append(@, seg)]

\* the loop over asleep_segments, through its first k
RECURSIVE AddSegments(_, _)
AddSegments(segs, k) ==
    IF k = 0 THEN <<>>
    ELSE Then(AddSegments(segs, k - 1), LAMBDA m : AddSegment(m, segs[k]))

\* s_start <= ts <= s_end on aware datetimes
Covers(seg, ts) == Instant(seg[1]) <= Instant(ts) /\ Instant(ts) <= Instant(seg[2])

\* the inner loop of assign_points: the first segment containing the point
FirstCovering(asleep, ts) ==
    IF \E i \in 1..Len(asleep) : Covers(asleep[i], ts)
    THEN CHOOSE i \in 1..Len(asleep) :
            /\ Covers(asleep[i], ts)
            /\ \A j \in 1..(i - 1) : ~Covers(asleep[j], ts)
    ELSE 0

AddPoint(nights_map, asleep, key, pt) ==
    LET k == FirstCovering(asleep, pt[1])
    IN  IF k = 0 THEN nights_map
        ELSE LET d == DateOf(asleep[k][1])
                 m == nb(nights_map, d)
                 i == IndexOfDate(m, d)
             IN  [m EXCEPT ![i][key] = Append(@, pt[2])]

\* the outer loop of assign_points, through the first k points
RECURSIVE AssignUpTo(_, _, _, _, _)
AssignUpTo(nights_map, asleep, points, key, k) ==
    IF k = 0 THEN nights_map
    ELSE Then(AssignUpTo(nights_map, asleep, points, key, k - 1),
              LAMBDA m : AddPoint(m, asleep, key, points[k]))

\* assign_points(points, key)
assign_points(nights_map, asleep, points, key) ==
    AssignUpTo(nights_map, asleep, points, key, Len(points))

\* lines 230-262: filter, group, assign
NightsMap(parsed, asleep) ==
    Then(AddSegments(asleep, Len(asleep)), LAMBDA m0 :
    Then(assign_points(m0, asleep, parsed.hr_points, "hr"), LAMBDA m1 :
    Then(assign_points(m1, asleep, parsed.hrv_points, "hrv"), LAMBDA m2 :
         assign_points(m2, asleep, parsed.resp_points, "resp"))))

GroupByNight(parsed) ==
    Then(AsleepSegments(parsed.sleep_segments), LAMBDA asleep : NightsMap(parsed, asleep))

\* ---------------------------------------------------------------------------
\* Collapsing a bucket into a night
\* ---------------------------------------------------------------------------

Duration(seg) == Instant(seg[2]) - Instant(seg[1])

\* the durations of the first k segments, summed
RECURSIVE SumDurUpTo(_, _)
SumDurUpTo(segs, k) == IF k = 0 THEN 0 ELSE SumDurUpTo(segs, k - 1) + Duration(segs[k])

SumDur(segs) == SumDurUpTo(segs, Len(segs))

IsRem(seg) == seg[3] # <<>> /\ Contains(seg[3], K_REM)

RECURSIVE SumIntUpTo(_, _)
SumIntUpTo(s, k) == IF k = 0 THEN 0 ELSE SumIntUpTo(s, k - 1) + s[k]

SumInt(s) == SumIntUpTo(s, Len(s))

\* sum(vals) / len(vals) if vals else None
MeanOrNone(vals) == IF vals = <<>> THEN None ELSE Rat(SumInt(vals), Len(vals))

\* rem_pct = (rem_hours / total_sleep_hours) * 100.0 if total_sleep_hours > 0 else None
RemPct(rem_hours, total_sleep_hours) ==
    IF total_sleep_hours > 0 THEN Rat(rem_hours * 100, total_sleep_hours) ELSE None

\* one iteration of the loop over nights_map.items()
CollapseNight(raw) ==
    LET total_sleep_hours == SumDur(raw.segments)
        rem_hours == SumDur(SelectSeq(raw.segments, IsRem))
        non_rem_hours == SumDur(SelectSeq(raw.segments, LAMBDA s : ~IsRem(s)))
    IN  [date |-> raw.date,
         total_sleep_hours |-> total_sleep_hours,
         rem_sleep_hours |-> rem_hours,
         nonrem_sleep_hours |-> non_rem_hours,
         rem_percentage |-> RemPct(rem_hours, total_sleep_hours),
         avg_hr |-> MeanOrNone(raw.hr),
         avg_hrv |-> MeanOrNone(raw.hrv),
         avg_resp |-> MeanOrNone(raw.resp)]

\* the nights one document produces, in the order they are appended
Collapse(nights_map) == [i \in 1..Len(nights_map) |-> CollapseNight(nights_map[i])]

Aggregate(recs) ==
    Then(ParseRecords(recs), LAMBDA parsed : Then(GroupByNight(parsed), Collapse))

\* ---------------------------------------------------------------------------
\* The rolling window and the summary
\* ---------------------------------------------------------------------------

MAX_NIGHTS == 30

\* sorted(nights, key=lambda n: n["date"]): a stable sort, here by insertion
InsertByDate(sorted_n, n) ==
    LET k == Cardinality({i \in 1..Len(sorted_n) : ~DateLt(n.date, sorted_n[i].date)})
    IN  SubSeq(sorted_n, 1, k) \o <<n>> \o SubSeq(sorted_n, k + 1, Len(sorted_n))

RECURSIVE SortByDate(_)
SortByDate(ns) ==
    IF ns = <<>> THEN <<>>
    ELSE Then(SortByDate(SubSeq(ns, 1, Len(ns) - 1)),
              LAMBDA sorted_n : InsertByDate(sorted_n, ns[Len(ns)]))

\* sorted_n[:MAX_NIGHTS], the slice taken from the wrong end
Suffix_FromStart(s, k) == IF Len(s) <= k THEN s ELSE SubSeq(s, 1, k)

\* sorted_n[-MAX_NIGHTS:]
Suffix(s, k) == IF Len(s) <= k THEN s ELSE SubSeq(s, Len(s) - k + 1, Len(s))

\* get_recent_nights() on a value of the global `nights`
get_recent_nights(ns) == IF ns = <<>> THEN <<>> ELSE Suffix(SortByDate(ns), MAX_NIGHTS)

\* summary_cache before the first upload
NoneCache ==
    [kind |-> "None", nights |-> 0, avg_total_sleep |-> None, avg_hr |-> None,
     avg_hrv |-> None, avg_resp_rate |-> None, avg_rem_pct |-> None]

\* the empty dict compute_sleep_summary returns for no nights
EmptyDict == [NoneCache EXCEPT !.kind = "{}"]

\* [night[key] for night in nights_list if night.get(key) is not None]
NonNone(ns, key) ==
    LET sel == SelectSeq(ns, LAMBDA n : n[key] # None)
    IN  [i \in 1..Len(sel) |-> sel[i][key]]

\* safe_avg(key)
safe_avg(ns, key) ==
    LET vals == NonNone(ns, key)
    IN  IF vals = <<>> THEN None ELSE RDiv(RSum(vals), RInt(Len(vals)))

\* round(v, digits) if v is not None else None
RoundOrNone(v, digits) == IF v = None THEN {None} ELSE Round(v, digits)

TotalHours(ns) == SumInt([i \in 1..Len(ns) |-> ns[i].total_sleep_hours])

\* compute_sleep_summary(nights_list): the dicts it can return
compute_sleep_summary(nights_list) ==
    IF nights_list = <<>> THEN {EmptyDict}
    ELSE LET n == Len(nights_list)
         IN  { [kind |-> "dict", nights |-> n, avg_total_sleep |-> a, avg_hr |-> h,
                avg_hrv |-> v, avg_resp_rate |-> r, avg_rem_pct |-> p] :
                 a \in Round(Rat(TotalHours(nights_list), n), 2),
                 h \in RoundOrNone(safe_avg(nights_list, "avg_hr"), 1),
                 v \in RoundOrNone(safe_avg(nights_list, "avg_hrv"), 1),
                 r \in RoundOrNone(safe_avg(nights_list, "avg_resp"), 1),
                 p \in RoundOrNone(safe_avg(nights_list, "rem_percentage"), 1) }

\* `not summary_cache`: None and {} are falsy
Falsy(cache) == cache.kind # "dict"

\* ---------------------------------------------------------------------------
\* The composite sleep score
\* ---------------------------------------------------------------------------

\* the per-night duration score without its cap and floor
DurationScore_Unclamped(d) ==
    IF 7 <= d /\ d <= 9 THEN 100 ELSE 100 - Abs(d - 8) * 10

\* the per-night duration score
DurationScore(d) ==
    IF 7 <= d /\ d <= 9 THEN 100
    ELSE Max2(30, 100 - Min2(Abs(d - 8) * 10, 70))

\* regularity from the population variance of the durations: std_dev < 0.5 is
\* variance < 1/4, std_dev < 1.5 is variance < 9/4
RegularityScore(durations) ==
    LET n == Len(durations)
        mean_dur == Rat(SumInt(durations), n)
        sq == [i \in 1..n |-> LET e == RSub(RInt(durations[i]), mean_dur) IN RMul(e, e)]
        variance == RDiv(RSum(sq), RInt(n))
    IN  IF RLt(variance, Rat(1, 4)) THEN 100
        ELSE IF RLt(variance, Rat(9, 4)) THEN 85
        ELSE 70

\* the value a component takes when no night carries its vital sign
NEUTRAL == 75

HrScore(hr_values) ==
    IF hr_values # <<>> THEN
        LET avg_hr == RDiv(RSum(hr_values), RInt(Len(hr_values)))
        IN  IF RLe(RInt(50), avg_hr) /\ RLe(avg_hr, RInt(70)) THEN RInt(100)
            ELSE RMax(RInt(60),
                      RSub(RInt(100),
                           RMin(RMul(RAbs(RSub(avg_hr, RInt(60))), RInt(2)), RInt(40))))
    ELSE RInt(NEUTRAL)

HrvScore(hrv_values) ==
    IF hrv_values # <<>> THEN
        LET avg_hrv == RDiv(RSum(hrv_values), RInt(Len(hrv_values)))
        IN  IF RLe(RInt(60), avg_hrv) THEN 100
            ELSE IF RLe(RInt(40), avg_hrv) THEN 85
            ELSE 70
    ELSE NEUTRAL

RespScore(resp_values) ==
    IF resp_values # <<>> THEN
        LET avg_resp == RDiv(RSum(resp_values), RInt(Len(resp_values)))
        IN  IF RLe(RInt(12), avg_resp) /\ RLe(avg_resp, RInt(18)) THEN RInt(100)
            ELSE RMax(RInt(60),
                      RSub(RInt(100),
                           RMin(RMul(RAbs(RSub(avg_resp, RInt(15))), RInt(3)), RInt(40))))
    ELSE RInt(NEUTRAL)

\* final_score before rounding: the weights are 0.40, 0.20, 0.15, 0.15, 0.10
WeightedSum(duration, regularity, hr, hrv, resp_s) ==
    RDiv(RSum(<<RMul(RInt(40), duration), RMul(RInt(20), regularity),
                RMul(RInt(15), hr), RMul(RInt(15), hrv), RMul(RInt(10), resp_s)>>),
         RInt(100))

\* sleep_score() on a non-empty `recent`: the bodies it can return (message and
\* explanation, which are text, left out)
sleep_score(recent) ==
    LET n == Len(recent)
        durations == [i \in 1..n |-> recent[i].total_sleep_hours]
        avg_duration_score == Rat(SumInt([i \in 1..n |-> DurationScore(durations[i])]), n)
        regularity_score == RInt(RegularityScore(durations))
        hr_score == HrScore(NonNone(recent, "avg_hr"))
        hrv_score == RInt(HrvScore(NonNone(recent, "avg_hrv")))
        resp_score == RespScore(NonNone(recent, "avg_resp"))
        final_score ==
            WeightedSum(avg_duration_score, regularity_score, hr_score, hrv_score, resp_score)
    IN  { [sleep_score |-> f, n_nights |-> n,
           details |-> [duration_score |-> d, regularity_score |-> regularity_score,
                        hr_score |-> h, hrv_score |-> hrv_score, resp_score |-> r]] :
            f \in Round(final_score, 1), d \in Round(avg_duration_score, 1),
            h \in Round(hr_score, 1), r \in Round(resp_score, 1) }

\* ---------------------------------------------------------------------------
\* Uploaded files
\*   document  [wellformed, records]: ET.iterparse raises on one that is not
\*             well-formed; records are its Record elements in document order
\*   file      [filename, valid_zip, entries, doc]: the upload's filename, whether
\*             ZipFile can open its bytes, the archive's entries in namelist()
\*             order, and the bytes read as a document
\* ---------------------------------------------------------------------------

NoDoc == [wellformed |-> FALSE, records |-> <<>>]

NoFile == [filename |-> <<>>, valid_zip |-> FALSE, entries |-> <<>>, doc |-> NoDoc]

X_zip == <<".","z","i","p">>

X_export_xml == <<"e","x","p","o","r","t",".","x","m","l">>

RawFile(doc) ==
    [filename |-> X_export_xml, valid_zip |-> FALSE, entries |-> <<>>, doc |-> doc]

\* the bytes of an archive are not a well-formed document
ZipArchive(entries) ==
    [filename |-> <<"e","x","p","o","r","t">> \o X_zip, valid_zip |-> TRUE,
     entries |-> entries, doc |-> NoDoc]

\* step 1 of upload(): the XML bytes, or the HTTPException raised
ExtractXml(file) ==
    IF EndsWith(Lower(file.filename), X_zip) THEN
        IF ~file.valid_zip THEN [ok |-> FALSE, xml |-> NoDoc]
        ELSE LET candidates ==
                     SelectSeq(file.entries,
                               LAMBDA e : EndsWith(Lower(e.name), X_export_xml))
             IN  IF candidates = <<>> THEN [ok |-> FALSE, xml |-> NoDoc]
                 ELSE [ok |-> TRUE, xml |-> candidates[1].doc]
    ELSE [ok |-> TRUE, xml |-> file.doc]

\* ---------------------------------------------------------------------------
\* Responses
\* ---------------------------------------------------------------------------

NoResp == [op |-> "none", status |-> 0, body |-> <<>>]

\* raise HTTPException(status_code=400, ...)
Http400(op, detail) == [op |-> op, status |-> 400, body |-> detail]

Http200(op, body) == [op |-> op, status |-> 200, body |-> body]

\* get_summary()
get_summary(cache) ==
    IF Falsy(cache) THEN Http400("summary", "No data available")
    ELSE Http200("summary", cache)

\* get_nights_timeseries()
get_nights_timeseries(ns) ==
    LET recent == get_recent_nights(ns)
    IN  IF recent = <<>> THEN Http400("nights", "No sleep data available")
        ELSE Http200("nights", recent)

\* sleep_score(): the responses it can give
sleep_score_responses(ns) ==
    LET recent == get_recent_nights(ns)
    IN  IF recent = <<>> THEN {Http400("score", "No sleep data available")}
        ELSE {Http200("score", b) : b \in sleep_score(recent)}

\* ---------------------------------------------------------------------------
\* History
\* ---------------------------------------------------------------------------

\* what nights() and summary() show of a value of the globals
ReadState(ns, cache) ==
    [nights |-> get_recent_nights(ns),
     summary |-> IF Falsy(cache) THEN NoneCache ELSE cache]

EmptyState == [nights |-> <<>>, summary |-> NoneCache]

\* how a failed upload left what the reads show, against what they showed before;
\* "void" when there was nothing to preserve or to clear
Outcome(before, after) ==
    IF after = before /\ before = EmptyState THEN "void"
    ELSE IF after = before THEN "preserved"
    ELSE IF after = EmptyState THEN "cleared"
    ELSE "mixed"

NoPre == <<<<>>, NoneCache>>

\* ---------------------------------------------------------------------------
\* upload(): one coroutine per client on the event loop.  It suspends only at
\* `await file.read()`; from there to its return the loop runs nothing else.
\* /summary, /nights and /sleep-score are plain `def` endpoints, which FastAPI
\* runs on worker threads: they read the globals between any two steps.
\* A response in flight is taken by its client before the next step; it has no
\* effect on the server.
\* ---------------------------------------------------------------------------

Clients == {"c1", "c2"}

NoOne == "-"

Idle == [pc |-> "idle", file |-> NoFile, xml |-> NoDoc, nights_map |-> <<>>, i |-> 0]

Quiet == resp.op = "none"

\* an upload() whose section after `await file.read()` yields to the loop between
\* its steps, as it would if the parse were awaited
MayStep_Yielding(u) == TRUE

\* the event loop runs u's coroutine on: it resumes one that waits at
\* `await file.read()` only when it is running no other, and the one it is
\* running goes on to its return without a suspension point
MayStep(u) == IF up[u].pc = "read" THEN loop = NoOne ELSE loop = u

\* the parser without `nights = []`: it appends to what is there
Reset_Keep(old) == old

\* `nights = []`, on entry to the parser and again before the collapse
Reset(old) == <<>>

\* the request arrives and the coroutine runs to `await file.read()`
UploadRequest(u, f) ==
    /\ Quiet
    /\ up[u].pc = "idle"
    /\ up' = [up EXCEPT ![u] = [Idle EXCEPT !.pc = "read", !.file = f]]
    /\ UNCHANGED <<nights, summary_cache, loop, resp, latest, pre, failures, imp, db>>

\* step 1 raises: no export.xml in the archive, or an unreadable archive
ExtractFail(u) ==
    /\ Quiet
    /\ up[u].pc = "read"
    /\ MayStep(u)
    /\ ~ExtractXml(up[u].file).ok
    /\ up' = [up EXCEPT ![u] = Idle]
    /\ resp' = Http400("upload", "UnsupportedSource")
    /\ pre' = <<nights, summary_cache>>
    /\ failures' = failures \cup
          {Outcome(ReadState(nights, summary_cache), ReadState(nights, summary_cache))}
    /\ UNCHANGED <<nights, summary_cache, loop, latest, imp, db>>

\* step 1 yields the XML bytes
ExtractOk(u) ==
    /\ Quiet
    /\ up[u].pc = "read"
    /\ MayStep(u)
    /\ ExtractXml(up[u].file).ok
    /\ up' = [up EXCEPT ![u].pc = "parse", ![u].xml = ExtractXml(up[u].file).xml]
    /\ loop' = u
    /\ pre' = <<nights, summary_cache>>
    /\ UNCHANGED <<nights, summary_cache, resp, latest, failures, imp, db>>

\* parse_apple_health_sleep_xml_stream: global nights; nights = []
ParseReset(u) ==
    /\ Quiet
    /\ MayStep(u)
    /\ up[u].pc = "parse"
    /\ nights' = Reset(nights)
    /\ up' = [up EXCEPT ![u].pc = "stream"]
    /\ UNCHANGED <<summary_cache, loop, resp, latest, pre, failures, imp, db>>

\* iterparse raises on a document that is not well-formed; upload() turns it into 400
ParseFail(u) ==
    /\ Quiet
    /\ MayStep(u)
    /\ up[u].pc = "stream"
    /\ ~up[u].xml.wellformed
    /\ up' = [up EXCEPT ![u] = Idle]
    /\ loop' = NoOne
    /\ resp' = Http400("upload", "ParseFailure")
    /\ failures' = failures \cup
          {Outcome(ReadState(pre[1], pre[2]), ReadState(nights, summary_cache))}
    /\ UNCHANGED <<nights, summary_cache, latest, pre, imp, db>>

\* the loop over Record elements, the grouping and the point assignment: locals only
ParseStream(u) ==
    /\ Quiet
    /\ MayStep(u)
    /\ up[u].pc = "stream"
    /\ up[u].xml.wellformed
    /\ up' = [up EXCEPT ![u].pc = "collapse",
                        ![u].nights_map = GroupByNight(ParseRecords(up[u].xml.records))]
    /\ UNCHANGED <<nights, summary_cache, loop, resp, latest, pre, failures, imp, db>>

\* "Collapse into final nights list": nights = []
CollapseReset(u) ==
    /\ Quiet
    /\ MayStep(u)
    /\ up[u].pc = "collapse"
    /\ nights' = Reset(nights)
    /\ up' = [up EXCEPT ![u].pc = IF up[u].nights_map = <<>> THEN "cache" ELSE "append",
                        ![u].i = 1]
    /\ UNCHANGED <<summary_cache, loop, resp, latest, pre, failures, imp, db>>

\* one iteration over nights_map.items(): nights.append({...})
CollapseAppend(u) ==
    /\ Quiet
    /\ MayStep(u)
    /\ up[u].pc = "append"
    /\ nights' = Append(nights, CollapseNight(up[u].nights_map[up[u].i]))
    /\ up' = [up EXCEPT ![u].pc = IF up[u].i = Len(up[u].nights_map)
                                  THEN "cache" ELSE "append",
                        ![u].i = up[u].i + 1]
    /\ UNCHANGED <<summary_cache, loop, resp, latest, pre, failures, imp, db>>

\* step 3: summary_cache = compute_sleep_summary(nights); return
CacheSummary(u) ==
    /\ Quiet
    /\ MayStep(u)
    /\ up[u].pc = "cache"
    /\ summary_cache' \in compute_sleep_summary(nights)
    /\ resp' = Http200("upload", Len(nights))
    /\ latest' = [doc |-> up[u].xml,
                   nights |-> [k \in 1..Len(up[u].nights_map) |->
                                  CollapseNight(up[u].nights_map[k])]]
    /\ up' = [up EXCEPT ![u] = Idle]
    /\ loop' = NoOne
    /\ UNCHANGED <<nights, pre, failures, imp, db>>

\* GET /summary
GetSummary ==
    /\ Quiet
    /\ resp' = get_summary(summary_cache)
    /\ UNCHANGED <<nights, summary_cache, up, loop, latest, pre, failures, imp, db>>

\* GET /nights
GetNights ==
    /\ Quiet
    /\ resp' = get_nights_timeseries(nights)
    /\ UNCHANGED <<nights, summary_cache, up, loop, latest, pre, failures, imp, db>>

\* POST /sleep-score
SleepScore ==
    /\ Quiet
    /\ resp' \in sleep_score_responses(nights)
    /\ UNCHANGED <<nights, summary_cache, up, loop, latest, pre, failures, imp, db>>

\* the client takes the response
Deliver ==
    /\ ~Quiet
    /\ resp' = NoResp
    /\ pre' = IF resp.op = "upload" THEN NoPre ELSE pre
    /\ UNCHANGED <<nights, summary_cache, up, loop, latest, failures, imp, db>>

\* no import has been started
ImpIdle ==
    [pc |-> "idle", doc |-> <<>>, i |-> 0, hr_batch |-> <<>>, sleep_batch |-> <<>>,
     hr_count |-> 0, sleep_count |-> 0, result |-> <<>>]

\* the tables as init_db() creates them
EmptyDb == [heart_rate |-> <<>>, sleep_epoch |-> <<>>]

Init ==
    /\ nights = <<>>
    /\ summary_cache = NoneCache
    /\ up = [u \in Clients |-> Idle]
    /\ loop = NoOne
    /\ resp = NoResp
    /\ latest = [doc |-> NoDoc, nights |-> <<>>]
    /\ pre = NoPre
    /\ failures = {}
    /\ imp = ImpIdle
    /\ db = EmptyDb

\* no upload has been served yet
Fresh ==
    /\ Quiet
    /\ loop = NoOne
    /\ \A u \in Clients : up[u].pc = "idle"
    /\ summary_cache.kind = "None"

\* the whole of upload(file) in a fresh process, with nothing running beside it
Ingest(f) ==
    /\ Fresh
    /\ pre' = <<nights, summary_cache>>
    /\ \E x \in {ExtractXml(f)} :
         \E built \in {Aggregate(x.xml.records)} :
           IF ~x.ok THEN
               /\ resp' = Http400("upload", "UnsupportedSource")
               /\ failures' = failures \cup
                     {Outcome(ReadState(nights, summary_cache),
                              ReadState(nights, summary_cache))}
               /\ UNCHANGED <<nights, summary_cache, latest>>
           ELSE IF ~x.xml.wellformed THEN
               /\ nights' = Reset(nights)
               /\ resp' = Http400("upload", "ParseFailure")
               /\ failures' = failures \cup
                     {Outcome(ReadState(nights, summary_cache),
                              ReadState(Reset(nights), summary_cache))}
               /\ UNCHANGED <<summary_cache, latest>>
           ELSE
               /\ nights' = Reset(Reset(nights)) \o built
               /\ summary_cache' \in compute_sleep_summary(Reset(Reset(nights)) \o built)
               /\ resp' = Http200("upload", Len(Reset(Reset(nights)) \o built))
               /\ latest' = [doc |-> x.xml, nights |-> built]
               /\ UNCHANGED failures
    /\ UNCHANGED <<up, loop, imp, db>>

\* ---------------------------------------------------------------------------
\* Inputs
\* ---------------------------------------------------------------------------

\* a parsed "YYYY-MM-DD HH:00:00 -0500", day 0 being 2024-01-01
At(day, hour) == [st |-> "ok", loc |-> day * 24 + hour, off |-> 0 - 5]

BadStamp == [st |-> "bad", loc |-> 0, off |-> 0]

Absent == [st |-> "absent", loc |-> 0, off |-> 0]

HKCategoryTypeIdentifier ==
    <<"H","K","C","a","t","e","g","o","r","y","T","y","p","e",
      "I","d","e","n","t","i","f","i","e","r">>

HKQuantityTypeIdentifier ==
    <<"H","K","Q","u","a","n","t","i","t","y","T","y","p","e",
      "I","d","e","n","t","i","f","i","e","r">>

HKCategoryValueSleepAnalysis ==
    <<"H","K","C","a","t","e","g","o","r","y","V","a","l","u","e">> \o T_SleepAnalysis

V_AsleepREM == HKCategoryValueSleepAnalysis \o <<"A","s","l","e","e","p","R","E","M">>

V_AsleepCore == HKCategoryValueSleepAnalysis \o <<"A","s","l","e","e","p","C","o","r","e">>

V_InBed == HKCategoryValueSleepAnalysis \o <<"I","n","B","e","d">>

V_Awake == HKCategoryValueSleepAnalysis \o <<"A","w","a","k","e">>

SleepRec(start, end, value) ==
    [type |-> HKCategoryTypeIdentifier \o T_SleepAnalysis,
     startDate |-> start, endDate |-> end, value |-> value]

HrRec(at, value) ==
    [type |-> HKQuantityTypeIdentifier \o T_HeartRate,
     startDate |-> at, endDate |-> at, value |-> value]

HrvRec(at, value) ==
    [type |-> HKQuantityTypeIdentifier \o T_HeartRateVariability \o <<"S","D","N","N">>,
     startDate |-> at, endDate |-> at, value |-> value]

RespRec(at, value) ==
    [type |-> HKQuantityTypeIdentifier \o T_RespiratoryRate,
     startDate |-> at, endDate |-> at, value |-> value]

StepRec(at) ==
    [type |-> HKQuantityTypeIdentifier \o <<"S","t","e","p","C","o","u","n","t">>,
     startDate |-> at, endDate |-> at, value |-> <<"1","2">>]

\* 2024-11-01 is day 305
Nov1_23 == At(305, 23)

Nov2_03 == At(306, 3)

Nov2_07 == At(306, 7)

Nov3_00 == At(307, 0)

Nov3_08 == At(307, 8)

\* the Record elements the aggregation is explored over
Alphabet ==
    { SleepRec(Nov1_23, Nov2_07, V_AsleepREM),      \* 8 h across midnight
      SleepRec(Nov2_03, Nov2_07, V_AsleepREM),      \* 4 h inside the first
      SleepRec(Nov2_03, Nov2_07, V_InBed),          \* in bed, textual label
      SleepRec(Nov2_07, Nov2_03, V_AsleepCore),     \* endDate before startDate
      SleepRec(Nov2_03, Nov2_03, <<"0">>),          \* in bed, numeric code, 0 h
      SleepRec(Nov1_23, Nov2_03, V_Awake),          \* awake, textual label
      SleepRec(Nov1_23, BadStamp, V_AsleepREM),     \* endDate does not parse
      SleepRec(Nov3_00, Nov3_08, V_AsleepCore),     \* 8 h, the following night
      HrRec(Nov2_03, <<"6","0">>),
      HrRec(Nov1_23, <<"8","0">>),
      HrRec(Nov2_03, <<"b","p","m">>),              \* value is not a number
      HrvRec(Nov2_03, <<"4","5">>),
      RespRec(Nov2_03, <<"2","0">>),
      StepRec(Nov2_03) }

\* the most Record elements in an explored document
MaxRecs == 3

Docs ==
    { [wellformed |-> TRUE, records |-> r] :
        r \in UNION { [1..n -> Alphabet] : n \in 0..MaxRecs } }

AggFiles == { RawFile(d) : d \in Docs }

\* the uploads of the concurrent exploration
DocA ==
    [wellformed |-> TRUE,
     records |-> << SleepRec(At(340, 23), At(341, 5), V_AsleepREM),
                    HrRec(At(341, 3), <<"6","0">>),
                    SleepRec(Nov1_23, Nov2_07, V_AsleepCore) >>]

\* a document without a sleep record
DocNoSleep == [wellformed |-> TRUE, records |-> << StepRec(Nov2_03) >>]

\* by how many nights the long document exceeds the window
Extra == 2

\* day k of the long document: an 8 or 9 hour night from 23:00, from 2024-12-02,
\* which is day 336
LongRec(k) == SleepRec(At(336 + k, 23), At(337 + k, 7 + (k % 2)), V_AsleepCore)

\* MAX_NIGHTS + Extra nights, the even days latest first, then the odd days
DocLong ==
    LET n    == MAX_NIGHTS + Extra
        half == (n + 1) \div 2
    IN  [wellformed |-> TRUE,
         records |-> [j \in 1..n |-> IF j <= half THEN LongRec(2 * (half - j))
                                                   ELSE LongRec(2 * (j - half) - 1)]]

N_export_cda == <<"e","x","p","o","r","t","_","c","d","a",".","x","m","l">>

N_Export_XML == <<"a","p","p","l","e","/","E","x","p","o","r","t",".","X","M","L">>

Files ==
    { ZipArchive(<< [name |-> N_export_cda, doc |-> NoDoc] >>),
      ZipArchive(<< [name |-> N_export_cda, doc |-> NoDoc],
                    [name |-> N_Export_XML, doc |-> DocA] >>),
      RawFile(NoDoc),
      RawFile(DocNoSleep),
      RawFile(DocLong) }

\* ---------------------------------------------------------------------------
\* Specifications
\* ---------------------------------------------------------------------------

\* ---------------------------------------------------------------------------
\* Batch persister: import_health_xml(xml_path, conn)
\*   row values  ts, start_ts and end_ts are whole hours since the epoch; a float
\*               is <<num, den>> as above, NaN is <<0, 0>>
\*   document    a sequence of runs [kind, n]: n consecutive Record elements of
\*               one kind; the i-th element of the document starts at hour i
\* ---------------------------------------------------------------------------

\* the globals the import does not touch
server == <<nights, summary_cache, up, loop, resp, latest, pre, failures>>

HR_BATCH_SIZE == 2000

SLEEP_BATCH_SIZE == 1000

I_HeartRate == HKQuantityTypeIdentifier \o T_HeartRate

I_SleepAnalysis == HKCategoryTypeIdentifier \o T_SleepAnalysis

\* _parse_apple_date: the instant since the epoch, UTC, in hours (the code's
\* milliseconds are 3 600 000 times this); 2024-01-01 00:00 UTC is hour 473352
parse_apple_date(ts) == 473352 + Instant(ts)

SLEEP_VALUE_MAP(value) ==
    IF value = <<"0">> THEN "INBED"
    ELSE IF value = <<"1">> THEN "ASLEEP"
    ELSE IF value = <<"2">> THEN "AWARENESS"
    ELSE IF value = <<"3">> THEN "ASLEEP_CORE"
    ELSE IF value = <<"4">> THEN "ASLEEP_DEEP"
    ELSE IF value = <<"5">> THEN "ASLEEP_REM"
    ELSE "ASLEEP"

NaN == <<0, 0>>

\* float(val) returns NaN: "nan" in any letter case
FloatNaN(s) == Lower(s) = <<"n","a","n">>

\* float(val), where it does not raise
FloatOf(s) == IF FloatNaN(s) THEN NaN ELSE RInt(DigitsVal(s))

\* heart_rate.value is REAL NOT NULL, and SQLite binds a NaN as NULL
NotNull(row) == row[2] # NaN

\* the rows of a batch before the first that the table rejects
Accepted(batch) ==
    LET rejected == {k \in 1..Len(batch) : ~NotNull(batch[k])}
    IN  SubSeq(batch, 1, (CHOOSE k \in rejected : \A j \in rejected : k <= j) - 1)

\* conn.executemany("INSERT INTO heart_rate ..."): rows go in one by one, in
\* order, and the first rejected row raises with the earlier ones left inserted
executemany_heart_rate(table, batch) ==
    IF \A k \in 1..Len(batch) : NotNull(batch[k])
    THEN [ok |-> TRUE, table |-> table \o batch]
    ELSE [ok |-> FALSE, table |-> table \o Accepted(batch)]

\* conn.executemany("INSERT INTO sleep_epoch ..."): integers and a text, none null
executemany_sleep_epoch(table, batch) == [ok |-> TRUE, table |-> table \o batch]

\* the start of the i-th Record element
StampAt(i) == At(i \div 24, i % 24)

I_RestingHeartRate ==
    HKQuantityTypeIdentifier \o <<"R","e","s","t","i","n","g">> \o T_HeartRate

\* the i-th Record element, of the given kind
ImpRec(kind, i) ==
    CASE kind = "hr" -> HrRec(StampAt(i), <<"7","1">>)
      [] kind = "hr_nan" -> HrRec(StampAt(i), <<"N","a","N">>)
      [] kind = "hr_text" -> HrRec(StampAt(i), <<"b","p","m">>)
      [] kind = "hr_badts" -> HrRec(BadStamp, <<"7","1">>)
      [] kind = "hr_novalue" -> HrRec(StampAt(i), <<>>)
      [] kind = "resting" ->
            [type |-> I_RestingHeartRate, startDate |-> StampAt(i),
             endDate |-> StampAt(i), value |-> <<"5","5">>]
      [] kind = "sleep" -> SleepRec(StampAt(i), StampAt(i + 1), <<"5">>)
      [] kind = "sleep_label" -> SleepRec(StampAt(i), StampAt(i + 1), V_InBed)
      [] kind = "sleep_badend" -> SleepRec(StampAt(i), BadStamp, <<"1">>)
      [] kind = "sleep_noend" -> SleepRec(StampAt(i), Absent, <<"1">>)
      [] OTHER -> StepRec(StampAt(i))

Run(kind, n) == [kind |-> kind, n |-> n]

RECURSIVE DocLenFrom(_, _)
DocLenFrom(doc, j) == IF j > Len(doc) THEN 0 ELSE doc[j].n + DocLenFrom(doc, j + 1)

DocLen(doc) == DocLenFrom(doc, 1)

RECURSIVE KindAt(_, _, _)
KindAt(doc, j, i) ==
    IF i <= doc[j].n THEN doc[j].kind ELSE KindAt(doc, j + 1, i - doc[j].n)

\* the i-th Record element that iterparse yields
Rec(doc, i) == ImpRec(KindAt(doc, 1, i), i)

\* lines 33-40: the locals before the loop
ImportStart(doc) ==
    /\ imp.pc = "idle"
    /\ imp' = [ImpIdle EXCEPT !.pc = "loop", !.doc = doc, !.i = 1]
    /\ UNCHANGED <<db, server>>

\* the heart-rate branch of one iteration
ImportHeartRate(r) ==
    IF r.value # <<>> /\ r.startDate.st # "absent" THEN
        IF r.startDate.st = "ok" /\ (FloatOk(r.value) \/ FloatNaN(r.value)) THEN
            \E b \in {Append(imp.hr_batch,
                             <<parse_apple_date(r.startDate), FloatOf(r.value)>>)} :
                IF Len(b) >= HR_BATCH_SIZE THEN
                    \E x \in {executemany_heart_rate(db.heart_rate, b)} :
                        /\ db' = [db EXCEPT !.heart_rate = x.table]
                        /\ imp' = IF x.ok
                                  THEN [imp EXCEPT !.i = @ + 1, !.hr_batch = <<>>,
                                                   !.hr_count = @ + Len(b)]
                                  ELSE [imp EXCEPT !.i = @ + 1, !.hr_batch = b]
                ELSE
                    /\ imp' = [imp EXCEPT !.i = @ + 1, !.hr_batch = b]
                    /\ UNCHANGED db
        ELSE
            /\ imp' = [imp EXCEPT !.i = @ + 1]
            /\ UNCHANGED db
    ELSE
        /\ imp' = [imp EXCEPT !.i = @ + 1]
        /\ UNCHANGED db

\* the sleep branch of one iteration
ImportSleep(r) ==
    IF r.startDate.st # "absent" /\ r.endDate.st # "absent" THEN
        IF r.startDate.st = "ok" /\ r.endDate.st = "ok" THEN
            \E b \in {Append(imp.sleep_batch,
                             <<parse_apple_date(r.startDate), parse_apple_date(r.endDate),
                               SLEEP_VALUE_MAP(r.value)>>)} :
                IF Len(b) >= SLEEP_BATCH_SIZE THEN
                    \E x \in {executemany_sleep_epoch(db.sleep_epoch, b)} :
                        /\ db' = [db EXCEPT !.sleep_epoch = x.table]
                        /\ imp' = IF x.ok
                                  THEN [imp EXCEPT !.i = @ + 1, !.sleep_batch = <<>>,
                                                   !.sleep_count = @ + Len(b)]
                                  ELSE [imp EXCEPT !.i = @ + 1, !.sleep_batch = b]
                ELSE
                    /\ imp' = [imp EXCEPT !.i = @ + 1, !.sleep_batch = b]
                    /\ UNCHANGED db
        ELSE
            /\ imp' = [imp EXCEPT !.i = @ + 1]
            /\ UNCHANGED db
    ELSE
        /\ imp' = [imp EXCEPT !.i = @ + 1]
        /\ UNCHANGED db

\* one iteration of `for event, elem in context`
ImportRecord ==
    /\ imp.pc = "loop"
    /\ imp.i <= DocLen(imp.doc)
    /\ \E r \in {Rec(imp.doc, imp.i)} :
          IF r.type = I_HeartRate THEN ImportHeartRate(r)
          ELSE IF r.type = I_SleepAnalysis THEN ImportSleep(r)
          ELSE imp' = [imp EXCEPT !.i = @ + 1] /\ UNCHANGED db
    /\ UNCHANGED server

\* "flush remaining" and the return; an exception of executemany leaves the call
ImportFinish ==
    /\ imp.pc = "loop"
    /\ imp.i > DocLen(imp.doc)
    /\ \E h \in {IF imp.hr_batch # <<>>
                 THEN executemany_heart_rate(db.heart_rate, imp.hr_batch)
                 ELSE [ok |-> TRUE, table |-> db.heart_rate]} :
          IF ~h.ok THEN
              /\ db' = [db EXCEPT !.heart_rate = h.table]
              /\ imp' = [imp EXCEPT !.pc = "raised"]
          ELSE
              \E e \in {IF imp.sleep_batch # <<>>
                        THEN executemany_sleep_epoch(db.sleep_epoch, imp.sleep_batch)
                        ELSE [ok |-> TRUE, table |-> db.sleep_epoch]} :
                  /\ db' = [heart_rate |-> h.table, sleep_epoch |-> e.table]
                  /\ imp' = [imp EXCEPT
                               !.pc = "done",
                               !.hr_count = @ + Len(imp.hr_batch),
                               !.sleep_count = @ + Len(imp.sleep_batch),
                               !.result = <<imp.hr_count + Len(imp.hr_batch),
                                            imp.sleep_count + Len(imp.sleep_batch)>>]
    /\ UNCHANGED server

\* how far the run lengths of the long documents lie from the batch sizes
Slack == 1

\* the most runs in a short document
MaxRuns == 2

Kinds ==
    {"hr", "hr_nan", "hr_text", "hr_badts", "hr_novalue", "resting",
     "sleep", "sleep_label", "sleep_badend", "sleep_noend", "step"}

\* every document of at most MaxRuns single Record elements
ShortDocs ==
    UNION { [1..n -> {Run(k, 1) : k \in Kinds}] : n \in 0..MaxRuns }

\* a run of heart-rate records and a run of sleep records about as long as their
\* batches, each followed by one odd record, then one more record of each
LongDocs ==
    { <<Run("hr", HR_BATCH_SIZE + d), Run(x, 1),
        Run("sleep", SLEEP_BATCH_SIZE + d), Run(y, 1),
        Run("hr", 1), Run("sleep", 1)>> :
        d \in (0 - Slack)..Slack,
        x \in {"hr_nan", "hr_text", "hr_badts", "step"},
        y \in {"sleep_badend", "step"} }

ImpDocs == ShortDocs \cup LongDocs

Next ==
    \/ \E u \in Clients : \E f \in Files : UploadRequest(u, f)
    \/ \E u \in Clients : ExtractFail(u)
    \/ \E u \in Clients : ExtractOk(u)
    \/ \E u \in Clients : ParseReset(u)
    \/ \E u \in Clients : ParseFail(u)
    \/ \E u \in Clients : ParseStream(u)
    \/ \E u \in Clients : CollapseReset(u)
    \/ \E u \in Clients : CollapseAppend(u)
    \/ \E u \in Clients : CacheSummary(u)
    \/ GetSummary
    \/ GetNights
    \/ SleepScore
    \/ Deliver

\* the server under concurrent uploads and reads
Spec == Init /\ [][Next]_vars

NextAgg ==
    \/ Fresh /\ \E f \in AggFiles : Ingest(f)
    \/ GetSummary
    \/ GetNights
    \/ SleepScore
    \/ Deliver

\* one upload into a fresh process, then reads: the aggregation and the score
\* over every document of at most MaxRecs records
SpecAgg == Init /\ [][NextAgg]_vars

NextImp ==
    \/ \E doc \in ImpDocs : ImportStart(doc)
    \/ ImportRecord
    \/ ImportFinish

\* one import_health_xml() call into empty tables
SpecImp == Init /\ [][NextImp]_vars

\* ---------------------------------------------------------------------------
\* Properties
\* ---------------------------------------------------------------------------

Dates(ns) == {ns[i].date : i \in 1..Len(ns)}

Range(seq) == {seq[i] : i \in 1..Len(seq)}

UploadDone == resp.op = "upload" /\ resp.status = 200

\* C1: with no upload running, every night that nights() returns was built by the
\* most recent completed ingest: a night of an earlier ingest is never returned,
\* and a date of both carries the latest values.
C1_ReplaceNotMerge ==
    loop = NoOne => Range(get_recent_nights(nights)) \subseteq Range(latest.nights)

\* C1 witness: an upload has just replaced a window that held a date the new one
\* lacks and a date the new one has with other values.
C1_Witness ==
    /\ UploadDone
    /\ loop = NoOne
    /\ nights # <<>>
    /\ Dates(pre[1]) \ Dates(nights) # {}
    /\ \E a \in Range(pre[1]) :
          \E b \in Range(get_recent_nights(nights)) : a.date = b.date /\ a # b

\* C2: with no upload running, an empty `nights` makes summary(), nights() and
\* score() all report no data.
C2_NoDataUniform ==
    (loop = NoOne /\ nights = <<>>) =>
        /\ get_summary(summary_cache).status = 400
        /\ get_nights_timeseries(nights).status = 400
        /\ \A r \in sleep_score_responses(nights) : r.status = 400

\* C3: every failed upload leaves what the reads show either as it was or empty,
\* never a mix, and all failures do the same of the two.
C3_FailureAllOrNothing ==
    /\ "mixed" \notin failures
    /\ ~({"preserved", "cleared"} \subseteq failures)

\* C4: while an upload that will succeed is running, what the reads show is the
\* whole state from before it or the whole state it will leave.
C4_AtomicReplace ==
    (loop # NoOne /\ up[loop].xml.wellformed) =>
        \A now \in {ReadState(nights, summary_cache)} :
          \A built \in {Aggregate(up[loop].xml.records)} :
            \/ now = ReadState(pre[1], pre[2])
            \/ \E c \in compute_sleep_summary(built) : now = ReadState(built, c)

\* C5: get_recent_nights returns at most MAX_NIGHTS nights of `nights`, strictly
\* ascending by date, and every night it omits is earlier than every night it
\* returns.
C5_RecentWindow ==
    \A recent \in {get_recent_nights(nights)} :
        /\ Len(recent) <= MAX_NIGHTS
        /\ Range(recent) \subseteq Range(nights)
        /\ \A i \in 1..Len(recent) : \A j \in 1..Len(recent) :
              i < j => DateLt(recent[i].date, recent[j].date)
        /\ \A n \in Range(nights) \ Range(recent) :
              \A r \in Range(recent) : DateLt(n.date, r.date)

\* C5 witness: /nights has answered with MAX_NIGHTS nights from a longer list
\* that is not in date order.
C5_Witness ==
    /\ resp.op = "nights"
    /\ resp.status = 200
    /\ Len(resp.body) = MAX_NIGHTS
    /\ Len(nights) > MAX_NIGHTS
    /\ \E i \in 1..(Len(nights) - 1) : DateLt(nights[i + 1].date, nights[i].date)

\* C6: after a successful upload the cached summary is the summary of the nights
\* that nights() returns.
C6_SummaryOverWindow ==
    UploadDone => summary_cache \in compute_sleep_summary(get_recent_nights(nights))

\* a sleep record whose label denotes in bed or awake, as text or as code 0 / 2
InBedOrAwake(r) ==
    /\ Contains(r.type, T_SleepAnalysis)
    /\ \/ Contains(Upper(r.value), <<"I","N","B","E","D">>)
       \/ Contains(Upper(r.value), <<"A","W","A","K","E">>)
       \/ r.value = <<"0">>
       \/ r.value = <<"2">>

ActualSleepOnly(recs) == SelectSeq(recs, LAMBDA r : ~InBedOrAwake(r))

\* C7: the nights of an ingest are those of the same document without its in-bed
\* and awake records: such a record adds no hours, creates no night and hosts no
\* vital-sign point.
C7_InBedAwakeExcluded ==
    UploadDone => nights = Aggregate(ActualSleepOnly(latest.doc.records))

\* C8: for every night, rem_percentage is None exactly when total_sleep_hours is
\* 0, and is within [0, 100] otherwise.
C8_RemPercentage ==
    \A n \in Range(nights) :
        /\ (n.rem_percentage = None) <=> (n.total_sleep_hours = 0)
        /\ n.rem_percentage # None =>
              RLe(RInt(0), n.rem_percentage) /\ RLe(n.rem_percentage, RInt(100))

InScoreRange(x) == RLe(RInt(0), x) /\ RLe(x, RInt(100))

AllNone(ns, key) == \A n \in Range(ns) : n[key] = None

HostDate(segs, pt) ==
    IF FirstCovering(segs, pt[1]) = 0 THEN None
    ELSE DateOf(segs[FirstCovering(segs, pt[1])][1])

\* the values of the points hosted by the night of date d, in emission order
HostedValues(segs, points, d) ==
    LET sel == SelectSeq(points, LAMBDA pt : HostDate(segs, pt) = d)
    IN  [i \in 1..Len(sel) |-> sel[i][2]]

\* C10: each night's vital-sign averages are the means of the points whose first
\* containing actual-sleep segment, in emission order, starts on that night's
\* date, and every night is the start date of a sleep segment: a point that no
\* such segment contains counts nowhere and creates no night.
C10_FirstContainingSegment ==
    UploadDone =>
      \A parsed \in {ParseRecords(latest.doc.records)} :
        \A segs \in {ParseRecords(ActualSleepOnly(latest.doc.records)).sleep_segments} :
          \A n \in Range(nights) :
            /\ n.avg_hr = MeanOrNone(HostedValues(segs, parsed.hr_points, n.date))
            /\ n.avg_hrv = MeanOrNone(HostedValues(segs, parsed.hrv_points, n.date))
            /\ n.avg_resp = MeanOrNone(HostedValues(segs, parsed.resp_points, n.date))
            /\ \E s \in Range(parsed.sleep_segments) : DateOf(s[1]) = n.date

\* a heart-rate record with a start that parses and a numeric value
WellFormedHeartRate(r) ==
    r.type = I_HeartRate /\ r.startDate.st = "ok" /\ FloatOk(r.value)

\* a sleep record with a start and an end that parse
WellFormedSleep(r) ==
    r.type = I_SleepAnalysis /\ r.startDate.st = "ok" /\ r.endDate.st = "ok"

Records(doc) == [i \in 1..DocLen(doc) |-> Rec(doc, i)]

\* one row per well-formed heart-rate record, in arrival order
ExpectedHeartRate(doc) ==
    Then(SelectSeq(Records(doc), WellFormedHeartRate),
         LAMBDA sel : [k \in 1..Len(sel) |->
                          <<parse_apple_date(sel[k].startDate),
                            RInt(DigitsVal(sel[k].value))>>])

\* one row per well-formed sleep record, in arrival order
ExpectedSleep(doc) ==
    Then(SelectSeq(Records(doc), WellFormedSleep),
         LAMBDA sel : [k \in 1..Len(sel) |->
                          <<parse_apple_date(sel[k].startDate),
                            parse_apple_date(sel[k].endDate),
                            SLEEP_VALUE_MAP(sel[k].value)>>])

\* C11: import_health_xml never holds more than HR_BATCH_SIZE heart-rate rows or
\* SLEEP_BATCH_SIZE sleep rows in a buffer; it returns, and when it has, each
\* table holds one row per well-formed record of its kind, in arrival order, and
\* the returned counts are the numbers of rows inserted.
C11_BatchPersister ==
    /\ Len(imp.hr_batch) <= HR_BATCH_SIZE
    /\ Len(imp.sleep_batch) <= SLEEP_BATCH_SIZE
    /\ imp.pc # "raised"
    /\ imp.pc = "done" =>
          \A hr \in {ExpectedHeartRate(imp.doc)} :
            \A sl \in {ExpectedSleep(imp.doc)} :
              /\ db.heart_rate = hr
              /\ db.sleep_epoch = sl
              /\ imp.result = <<Len(hr), Len(sl)>>

InSection(u) == up[u].pc \notin {"idle", "read"}

\* C12: at most one upload is past `await file.read()` at a time, and it is the
\* one the event loop runs; when an upload returns successfully, `nights` is the
\* list its parse built and summary_cache is a summary of that list, also when
\* another upload was in flight with it.
C12_LastWriterWins ==
    /\ \A u \in Clients :
          InSection(u) => loop = u /\ \A v \in Clients \ {u} : ~InSection(v)
    /\ UploadDone =>
          /\ nights = latest.nights
          /\ summary_cache \in compute_sleep_summary(latest.nights)

\* C12 witness: an upload has returned successfully and replaced the nights of an
\* earlier one, while another upload, of a different document that will parse,
\* is in flight, waiting at `await file.read()`.
C12_Witness ==
    /\ UploadDone
    /\ nights # <<>>
    /\ pre[1] # <<>>
    /\ pre[1] # nights
    /\ \E v \in Clients :
          /\ up[v].pc = "read"
          /\ ExtractXml(up[v].file).ok
          /\ ExtractXml(up[v].file).xml.wellformed
          /\ ExtractXml(up[v].file).xml # latest.doc

====
